---- MODULE Spec2Model ----
(***************************************************************************)
(* Value-Centered Maturity (VCM) assessment: the question catalog, the     *)
(* scorer, the initiative recommender, the markdown report builder and the *)
(* Streamlit page that drives them.                                        *)
(*                                                                         *)
(* Python values are modelled as follows.                                  *)
(*   float          an exact fraction [n |-> Int, d |-> Nat \ {0}] in       *)
(*                  lowest terms (the scores are small ratios of integers)  *)
(*   dict           a function whose DOMAIN is the set of keys              *)
(*   list / tuple   a sequence                                              *)
(*   dataclass      a record                                                *)
(*   None           the record None, a value v that may be None Some(v)    *)
(*   a call         Return(v) when it returns v, Raise... when it raises    *)
(***************************************************************************)
EXTENDS Integers, Sequences, FiniteSets, TLC

VARIABLES fn, args, ret, session, widgets, page

vars == <<fn, args, ret, session, widgets, page>>

---------------------------------------------------------------------------
(* Bounds of the model.                                                    *)

\* Scores are drawn from the grid n / GridDen.
GridDen == 10
\* The grid spans 0 - GridSpan .. 5 + GridSpan, so it leaves [0, 5.1) both ways.
GridSpan == 1
\* get_top_initiatives is called with limit in -MaxLimit .. MaxLimit.
MaxLimit == 3
\* The option lists of the small catalogs hold ShortOptions or ShortOptions + 1 labels.
ShortOptions == 2
\* value_input takes the values 0, step, .., MaxValueSteps * step.
MaxValueSteps == 1

---------------------------------------------------------------------------
(* Exact arithmetic standing for Python's float arithmetic.                *)

Abs(x) == IF x < 0 THEN -x ELSE x

RECURSIVE Gcd(_, _)
Gcd(a, b) == IF b = 0 THEN a ELSE Gcd(b, a % b)

\* n / d with d > 0, in lowest terms.
Frac(n, d) ==
    LET g == Gcd(Abs(n), d)
    IN  [n |-> n \div g, d |-> d \div g]

FromInt(i) == [n |-> i, d |-> 1]

FracLT(x, y) == x.n * y.d < y.n * x.d
FracLE(x, y) == x.n * y.d <= y.n * x.d
FracAdd(x, y) == Frac(x.n * y.d + y.n * x.d, x.d * y.d)
\* x / k for an integer k > 0.
FracDivInt(x, k) == Frac(x.n, x.d * k)

\* What a call does: it returns a value or raises an exception.
Return(v) == [kind |-> "return", value |-> v]
Pending == [kind |-> "pending"]

None == [some |-> FALSE, val |-> FromInt(0)]
Some(v) == [some |-> TRUE, val |-> v]

---------------------------------------------------------------------------
(* vcm_logic/questions.py                                                  *)

_default_options ==
    << "Not started",
       "Ad hoc or limited",
       "Defined and repeatable",
       "Managed with metrics",
       "Optimized and automated" >>

Question(id, options) == [id |-> id, options |-> options]

Pillar(id, name, questions) == [id |-> id, name |-> name, questions |-> questions]

get_pillars ==
    LET options == _default_options
    IN  << Pillar("strategy", "Strategy",
                  << Question("strategy_alignment", options),
                     Question("strategy_prioritization", options) >>),
           Pillar("data", "Data & Tooling",
                  << Question("data_quality", options),
                     Question("tooling_modern", options) >>),
           Pillar("execution", "Execution",
                  << Question("execution_delivery", options),
                     Question("execution_measurement", options) >>),
           Pillar("culture", "Culture & Change",
                  << Question("culture_adoption", options),
                     Question("culture_training", options) >> ) >>

---------------------------------------------------------------------------
(* vcm_logic/scoring.py                                                    *)

PillarScore(pillar_id, average, responses) ==
    [pillar_id |-> pillar_id, average |-> average, responses |-> responses]

\* KeyError(key), as a failed subscript raises it.
RaiseKeyError(key) == [kind |-> "raise", exc |-> "KeyError", key |-> key]

\* ValueError(f"Unknown option '{option}' for question {question.id}")
RaiseUnknownOption(option, question) ==
    [kind |-> "raise", exc |-> "ValueError",
     message |-> << "Unknown option '", option, "' for question ", question.id >>]

RaiseZeroDivisionError == [kind |-> "raise", exc |-> "ZeroDivisionError"]

\* Mutant of ListIndex: the labels are compared without regard to the case
\* of the first letter.
RECURSIVE ListIndexAnyCase(_, _, _)
ListIndexAnyCase(list, x, position) ==
    IF position >= Len(list) THEN -1
    ELSE IF list[position + 1] = x \/ (x = "not started" /\ list[position + 1] = "Not started")
         THEN position
    ELSE ListIndexAnyCase(list, x, position + 1)

\* list.index: the position (from 0) of the first element equal to x, -1 for
\* the ValueError it raises when there is none.
RECURSIVE ListIndex(_, _, _)
ListIndex(list, x, position) ==
    IF position >= Len(list) THEN -1
    ELSE IF list[position + 1] = x THEN position
    ELSE ListIndex(list, x, position + 1)

\* Mutant of _option_to_score: the bare position, without the + 1.
OptionToScoreZeroBased(option, question) ==
    LET position == ListIndex(question.options, option, 0)
    IN  IF position < 0
        THEN RaiseUnknownOption(option, question)
        ELSE Return(position)

_option_to_score(option, question) ==
    LET position == ListIndex(question.options, option, 0)
    IN  IF position < 0
        THEN RaiseUnknownOption(option, question)
        ELSE Return(position + 1)

\* Mutant of ScoreQuestions: a question without an answer is skipped.
RECURSIVE ScoreQuestionsSkipMissing(_, _, _)
ScoreQuestionsSkipMissing(answers, questions, numeric_responses) ==
    IF questions = << >> THEN Return(numeric_responses)
    ELSE LET question == Head(questions)
         IN  IF question.id \notin DOMAIN answers
             THEN ScoreQuestionsSkipMissing(answers, Tail(questions), numeric_responses)
             ELSE LET score == _option_to_score(answers[question.id], question)
                  IN  IF score.kind = "raise" THEN score
                      ELSE ScoreQuestionsSkipMissing(answers, Tail(questions),
                               (question.id :> score.value) @@ numeric_responses)

\* The inner loop of score_responses over one pillar's questions.
RECURSIVE ScoreQuestions(_, _, _)
ScoreQuestions(answers, questions, numeric_responses) ==
    IF questions = << >> THEN Return(numeric_responses)
    ELSE LET question == Head(questions)
         IN  IF question.id \notin DOMAIN answers
             THEN RaiseKeyError(question.id)
             ELSE LET score == _option_to_score(answers[question.id], question)
                  IN  IF score.kind = "raise" THEN score
                      ELSE ScoreQuestions(answers, Tail(questions),
                               (question.id :> score.value) @@ numeric_responses)

\* sum(d.values())
RECURSIVE SumValues(_)
SumValues(d) ==
    IF DOMAIN d = {} THEN 0
    ELSE LET k == CHOOSE k \in DOMAIN d : TRUE
         IN  d[k] + SumValues([j \in DOMAIN d \ {k} |-> d[j]])

\* sum(numeric_responses.values()) / len(numeric_responses)
AverageScore(numeric_responses) ==
    Frac(SumValues(numeric_responses), Cardinality(DOMAIN numeric_responses))

\* The outer loop of score_responses over the pillars.
RECURSIVE ScorePillars(_, _, _)
ScorePillars(answers, pillars, pillar_scores) ==
    IF pillars = << >> THEN Return(pillar_scores)
    ELSE LET pillar == Head(pillars)
             scored == ScoreQuestions(answers, pillar.questions, << >>)
         IN  IF scored.kind = "raise" THEN scored
             ELSE IF DOMAIN scored.value = {} THEN RaiseZeroDivisionError
             ELSE ScorePillars(answers, Tail(pillars),
                      (pillar.id :> PillarScore(pillar.id, AverageScore(scored.value),
                                                scored.value))
                      @@ pillar_scores)

score_responses(answers, pillars) == ScorePillars(answers, pillars, << >>)

\* Mutant of compute_maturity_level: the upper boundaries are inclusive.
ComputeMaturityLevelInclusive(overall_score) ==
    IF FracLE(overall_score, FromInt(2)) THEN "Nascent"
    ELSE IF FracLE(overall_score, FromInt(3)) THEN "Emerging"
    ELSE IF FracLE(overall_score, FromInt(4)) THEN "Established"
    ELSE "Leading"

compute_maturity_level(overall_score) ==
    IF FracLT(overall_score, FromInt(2)) THEN "Nascent"
    ELSE IF FracLT(overall_score, FromInt(3)) THEN "Emerging"
    ELSE IF FracLT(overall_score, FromInt(4)) THEN "Established"
    ELSE "Leading"

\* sum(score.average for score in pillar_scores.values())
RECURSIVE SumAverages(_)
SumAverages(pillar_scores) ==
    IF DOMAIN pillar_scores = {} THEN FromInt(0)
    ELSE LET k == CHOOSE k \in DOMAIN pillar_scores : TRUE
         IN  FracAdd(pillar_scores[k].average,
                     SumAverages([j \in DOMAIN pillar_scores \ {k} |-> pillar_scores[j]]))

\* sum(len(score.responses) for score in pillar_scores.values())
RECURSIVE CountResponses(_)
CountResponses(pillar_scores) ==
    IF DOMAIN pillar_scores = {} THEN 0
    ELSE LET k == CHOOSE k \in DOMAIN pillar_scores : TRUE
         IN  Cardinality(DOMAIN pillar_scores[k].responses)
             + CountResponses([j \in DOMAIN pillar_scores \ {k} |-> pillar_scores[j]])

\* sum(sum(score.responses.values()) for score in pillar_scores.values())
RECURSIVE SumResponses(_)
SumResponses(pillar_scores) ==
    IF DOMAIN pillar_scores = {} THEN 0
    ELSE LET k == CHOOSE k \in DOMAIN pillar_scores : TRUE
         IN  SumValues(pillar_scores[k].responses)
             + SumResponses([j \in DOMAIN pillar_scores \ {k} |-> pillar_scores[j]])

\* Mutant of overall_average: the mean over all questions.
OverallAverageByQuestion(pillar_scores) ==
    IF DOMAIN pillar_scores = {} THEN FromInt(0)
    ELSE Frac(SumResponses(pillar_scores), CountResponses(pillar_scores))

\* Mutant of overall_average: the sum of the averages, never divided.
OverallAverageUndivided(pillar_scores) ==
    IF DOMAIN pillar_scores = {} THEN FromInt(0)
    ELSE SumAverages(pillar_scores)

overall_average(pillar_scores) ==
    IF DOMAIN pillar_scores = {} THEN FromInt(0)
    ELSE FracDivInt(SumAverages(pillar_scores), Cardinality(DOMAIN pillar_scores))

---------------------------------------------------------------------------
(* vcm_logic/initiatives.py                                                *)

Initiative(title, description) == [title |-> title, description |-> description]

\* Score bands are inclusive of the lower bound and exclusive of the upper bound.
BANDS ==
    << << FromInt(0), FromInt(2) >>,
       << FromInt(2), FromInt(3) >>,
       << FromInt(3), FromInt(4) >>,
       << FromInt(4), Frac(51, 10) >> >>

\* A dict keyed by the band tuples, holding the four lists in band order.
ByBand(lists) ==
    [band \in {BANDS[i] : i \in 1..Len(BANDS)} |->
        lists[CHOOSE i \in 1..Len(BANDS) : BANDS[i] = band]]

_INITIATIVES ==
    [pillar_id \in {"strategy", "data", "execution", "culture"} |->
        CASE pillar_id = "strategy" -> ByBand(<<
                 << Initiative("Define value north star",
                        "Document 3-5 measurable value outcomes and circulate them across leadership."),
                    Initiative("Decision cadence",
                        "Establish a monthly forum to prioritize work by value and risk.") >>,
                 << Initiative("Roadmap by value",
                        "Score backlog items by impact vs. effort and publish a quarterly roadmap.") >>,
                 << Initiative("KPIs with ownership",
                        "Assign accountable owners for value KPIs and track progress in a shared dashboard.") >>,
                 << Initiative("Adaptive capital allocation",
                        "Rebalance funding each quarter based on realized benefits and new opportunities.") >> >>)
          [] pillar_id = "data" -> ByBand(<<
                 << Initiative("Data inventory",
                        "List critical datasets, owners, and known gaps to inform remediation priorities.") >>,
                 << Initiative("Quality baselines",
                        "Implement basic data quality checks on the most used tables or reports."),
                    Initiative("Tooling uplift",
                        "Pilot a modern analytics stack with one high-value use case.") >>,
                 << Initiative("Model governance",
                        "Introduce versioning, testing, and monitoring for key analytical models.") >>,
                 << Initiative("Self-service enablement",
                        "Broaden governed data access and training for power users across teams.") >> >>)
          [] pillar_id = "execution" -> ByBand(<<
                 << Initiative("Delivery playbook",
                        "Standardize intake templates, stage gates, and RACI to reduce ambiguity.") >>,
                 << Initiative("Pilot value tracking",
                        "Run a small project with explicit benefit hypotheses and simple tracking.") >>,
                 << Initiative("Benefits realization",
                        "Embed benefit tracking into project close-out and post-launch reviews.") >>,
                 << Initiative("Portfolio optimization",
                        "Continuously reprioritize initiatives based on realized vs. forecast benefits.") >> >>)
          [] pillar_id = "culture" -> ByBand(<<
                 << Initiative("Narrative for change",
                        "Share success stories linking value outcomes to daily work to build momentum.") >>,
                 << Initiative("Targeted enablement",
                        "Offer short trainings on value framing, data literacy, and change management.") >>,
                 << Initiative("Incentives alignment",
                        "Align performance goals and recognition with value-centric behaviors.") >>,
                 << Initiative("Communities of practice",
                        "Sustain peer-led forums to share learnings and continuously improve.") >> >>)]

\* Mutant of BandScan: the upper bound is inclusive too.
RECURSIVE BandScanInclusive(_, _)
BandScanInclusive(score, i) ==
    IF i > Len(BANDS) THEN BANDS[Len(BANDS)]
    ELSE LET lower == BANDS[i][1]
             upper == BANDS[i][2]
         IN  IF FracLE(lower, score) /\ FracLE(score, upper)
             THEN BANDS[i]
             ELSE BandScanInclusive(score, i + 1)

\* The for loop of _band_for_score from the band at index i on.
RECURSIVE BandScan(_, _)
BandScan(score, i) ==
    IF i > Len(BANDS) THEN BANDS[Len(BANDS)]
    ELSE LET lower == BANDS[i][1]
             upper == BANDS[i][2]
         IN  IF FracLE(lower, score) /\ FracLT(score, upper)
             THEN BANDS[i]
             ELSE BandScan(score, i + 1)

_band_for_score(score) == BandScan(score, 1)

\* list[:limit]: a negative limit counts from the end of the list.
SlicePrefix(list, limit) ==
    LET stop == IF limit >= 0
                THEN (IF limit < Len(list) THEN limit ELSE Len(list))
                ELSE (IF Len(list) + limit > 0 THEN Len(list) + limit ELSE 0)
    IN  SubSeq(list, 1, stop)

\* dict.get(key, default)
DictGet(d, key, default) == IF key \in DOMAIN d THEN d[key] ELSE default

get_top_initiatives(pillar_id, score, limit) ==
    LET pillar_bands == DictGet(_INITIATIVES, pillar_id, << >>)
        band == _band_for_score(score)
        initiatives == DictGet(pillar_bands, band, << >>)
    IN  SlicePrefix(initiatives, limit)

\* The default of get_top_initiatives' limit parameter.
DefaultLimit == 3

---------------------------------------------------------------------------
(* vcm_logic/report_builder.py                                             *)

\* round() of x to an integer, ties to the even neighbour, as the format
\* specifications .1f and .0f round a float that holds x exactly.
RoundHalfEven(x) ==
    LET q == x.n \div x.d
        r == x.n - q * x.d
    IN  IF 2 * r < x.d THEN q
        ELSE IF 2 * r > x.d THEN q + 1
        ELSE IF q % 2 = 0 THEN q ELSE q + 1

\* f"{x:.1f}": the sign, the integer digits and the one decimal digit.
FormatOneDecimal(x) ==
    LET tenths == RoundHalfEven(Frac(x.n * 10, x.d))
    IN  << IF tenths < 0 THEN "-" ELSE "", Abs(tenths) \div 10, ".", Abs(tenths) % 10 >>

\* The groups of three digits of n >= 0 that "," separates.
RECURSIVE GroupThousands(_)
GroupThousands(n) ==
    IF n < 1000 THEN << n >>
    ELSE Append(GroupThousands(n \div 1000), n % 1000)

\* f"{x:,.0f}" for x >= 0.
FormatGrouped(x) == GroupThousands(RoundHalfEven(x))

\* The text "\n---\n" holds three lines.
Separator == << << "" >>, << "---" >>, << "" >> >>

\* for item in initiatives: lines.append(...)
RECURSIVE InitiativeLines(_)
InitiativeLines(initiatives) ==
    IF initiatives = << >> THEN << >>
    ELSE << << "- **", Head(initiatives).title, "** - ", Head(initiatives).description >> >>
         \o InitiativeLines(Tail(initiatives))

_format_pillar_section(pillar, score, initiatives) ==
    LET lines == << << "## ", pillar.name >>,
                    << "**Average score:** ", FormatOneDecimal(score.average) >> >>
    IN  IF initiatives # << >>
        THEN lines \o << << "**Recommended initiatives:**" >> >> \o InitiativeLines(initiatives)
        ELSE lines

\* The loop of build_markdown_report over the pillars.
RECURSIVE ReportPillars(_, _, _, _)
ReportPillars(pillars, pillar_scores, initiatives, sections) ==
    IF pillars = << >> THEN Return(sections)
    ELSE LET pillar == Head(pillars)
         IN  IF pillar.id \notin DOMAIN pillar_scores
             THEN RaiseKeyError(pillar.id)
             ELSE LET pillar_score == pillar_scores[pillar.id]
                      pillar_initiatives == DictGet(initiatives, pillar.id, << >>)
                  IN  ReportPillars(Tail(pillars), pillar_scores, initiatives,
                          sections
                          \o _format_pillar_section(pillar, pillar_score, pillar_initiatives)
                          \o << << "" >> >>)

build_markdown_report(pillars, pillar_scores, maturity_level, overall_score, value_at_stake, initiatives) ==
    LET head == << << "# Value-Centered Maturity Assessment" >>,
                   << "" >>,
                   << "**Overall score:** ", FormatOneDecimal(overall_score) >>,
                   << "**Maturity level:** ", maturity_level >> >>
        value == IF value_at_stake # None
                 THEN << << "**Estimated value at stake:** ",
                            FormatGrouped(value_at_stake.val), " (PHP)" >> >>
                 ELSE << >>
        body == ReportPillars(pillars, pillar_scores, initiatives,
                              head \o value \o Separator)
    IN  IF body.kind = "raise" THEN body
        ELSE Return(body.value \o Separator
                    \o << << "These recommendations are illustrative placeholders. Replace them with your organization's guidance before sharing broadly." >> >>)

---------------------------------------------------------------------------
(* The inputs the functions are applied to.                                *)

\* The first k of the shared option labels.
FirstOptions(k) == SubSeq(_default_options, 1, k)

\* A catalog of two pillars with different question counts and option lists
\* of different lengths; pillar and question ids are those of get_pillars.
SmallPillars ==
    << Pillar("strategy", "Strategy",
              << Question("strategy_alignment", FirstOptions(ShortOptions + 1)),
                 Question("strategy_prioritization", FirstOptions(ShortOptions)) >>),
       Pillar("data", "Data & Tooling",
              << Question("data_quality", FirstOptions(ShortOptions + 1)) >>) >>

\* The catalogs: no pillar, one pillar, two pillars.
Catalogs == { << >>, SubSeq(SmallPillars, 1, 1), SmallPillars }

Range(seq) == { seq[i] : i \in 1..Len(seq) }

QuestionsOf(pillars) == UNION { Range(pillars[i].questions) : i \in 1..Len(pillars) }

QuestionIds(pillars) == { q.id : q \in QuestionsOf(pillars) }

PillarIds(pillars) == { pillars[i].id : i \in 1..Len(pillars) }

\* The labels an answer may hold: the labels the small catalogs use and one
\* that differs from an option label in case only.
AnswerLabels == Range(FirstOptions(ShortOptions + 1)) \cup { "not started" }

\* Every mapping from some of the catalog's question ids to a label.
AnswerSets(pillars) ==
    UNION { [ids -> AnswerLabels] : ids \in SUBSET QuestionIds(pillars) }

\* The scores n / GridDen from -GridSpan to 5 + GridSpan, and the scores the
\* boundary table names.
Scores ==
    { Frac(n, GridDen) : n \in (0 - GridSpan * GridDen) .. ((5 + GridSpan) * GridDen) }
    \cup { Frac(1999, 1000), Frac(39999, 10000), Frac(51, 10), Frac(509, 100) }

Limits == (0 - MaxLimit) .. MaxLimit

\* The pillar ids of the initiative table and one it does not hold.
PillarIdInputs == DOMAIN _INITIATIVES \cup { "unknown" }

\* The step of the value-at-stake number input.
ValueStep == 100000

ValueInputs == { FromInt(k * ValueStep) : k \in 0..MaxValueSteps }

\* d restricted to the keys in ks.
Restrict(d, ks) == [k \in ks |-> d[k]]

---------------------------------------------------------------------------
(* app.py                                                                  *)

\* st.session_state without the widget keys: no key at the session's start.
NewSession == << >>

\* The widget values before the form is first rendered: no key.
NoWidgets == << >>

_init_session(state) ==
    IF "results" \notin DOMAIN state THEN ("results" :> None) @@ state ELSE state

\* The widget values the form holds when it is first rendered: st.radio with
\* index=0 and st.number_input at its min_value.
FormDefaults(pillars) ==
    [resp |-> [id \in QuestionIds(pillars) |->
                  (CHOOSE q \in QuestionsOf(pillars) : q.id = id).options[1]],
     value_input |-> FromInt(0)]

\* The loops of _collect_answers, reading st.session_state["resp_" + id].
RECURSIVE CollectQuestions(_, _, _)
CollectQuestions(state, questions, answers) ==
    IF questions = << >> THEN Return(answers)
    ELSE LET question == Head(questions)
         IN  IF "resp" \notin DOMAIN state \/ question.id \notin DOMAIN state.resp
             THEN RaiseKeyError(<< "resp_", question.id >>)
             ELSE CollectQuestions(state, Tail(questions),
                      (question.id :> state.resp[question.id]) @@ answers)

RECURSIVE CollectPillars(_, _, _)
CollectPillars(state, pillars, answers) ==
    IF pillars = << >> THEN Return(answers)
    ELSE LET collected == CollectQuestions(state, Head(pillars).questions, answers)
         IN  IF collected.kind = "raise" THEN collected
             ELSE CollectPillars(state, Tail(pillars), collected.value)

_collect_answers(state, pillars) == CollectPillars(state, pillars, << >>)

\* value_input if value_input > 0 else None
ValueAtStake(value_input) ==
    IF FracLT(FromInt(0), value_input) THEN Some(value_input) ELSE None

\* The loop of _calculate_results that fills the initiatives dict.
RECURSIVE PillarInitiatives(_, _, _)
PillarInitiatives(pillars, pillar_scores, initiatives) ==
    IF pillars = << >> THEN initiatives
    ELSE LET pillar == Head(pillars)
         IN  PillarInitiatives(Tail(pillars), pillar_scores,
                 (pillar.id :> get_top_initiatives(pillar.id,
                                   pillar_scores[pillar.id].average, DefaultLimit))
                 @@ initiatives)

\* The results dict _calculate_results stores for an answer set, or what it raises.
CalculateBundle(answers, pillars, value_at_stake) ==
    LET scored == score_responses(answers, pillars)
    IN  IF scored.kind = "raise" THEN scored
        ELSE LET pillar_scores == scored.value
                 overall_score == overall_average(pillar_scores)
                 maturity_level == compute_maturity_level(overall_score)
             IN  Return([pillar_scores |-> pillar_scores,
                         overall_score |-> overall_score,
                         maturity_level |-> maturity_level,
                         initiatives |-> PillarInitiatives(pillars, pillar_scores, << >>),
                         value_at_stake |-> value_at_stake])

\* Mutant of _calculate_results: the new values are written into the stored
\* dict key by key, and maturity_level only when no results are stored yet.
CalculateResultsUpdateStored(state, widget_state, pillars, value_at_stake) ==
    LET collected == _collect_answers(widget_state, pillars)
    IN  IF collected.kind = "raise" THEN collected
        ELSE LET bundle == CalculateBundle(collected.value, pillars, value_at_stake)
             IN  IF bundle.kind = "raise" THEN bundle
                 ELSE IF "results" \in DOMAIN state /\ state["results"] # None
                 THEN Return(("results" :>
                          [bundle.value EXCEPT
                              !.maturity_level = state["results"].maturity_level])
                          @@ state)
                 ELSE Return(("results" :> bundle.value) @@ state)

\* The session state _calculate_results leaves, or what it raises.
_calculate_results(state, widget_state, pillars, value_at_stake) ==
    LET collected == _collect_answers(widget_state, pillars)
    IN  IF collected.kind = "raise" THEN collected
        ELSE LET bundle == CalculateBundle(collected.value, pillars, value_at_stake)
             IN  IF bundle.kind = "raise" THEN bundle
                 ELSE Return(("results" :> bundle.value) @@ state)

\* What _render_results puts on the page: nothing without results, else the
\* success banner and the report behind the download button.
_render_results(state, pillars) ==
    IF state["results"] = None
    THEN Return([status |-> "form", report |-> None])
    ELSE LET results == state["results"]
             report_md == build_markdown_report(pillars, results.pillar_scores,
                              results.maturity_level, results.overall_score,
                              results.value_at_stake, results.initiatives)
         IN  IF report_md.kind = "raise" THEN report_md
             ELSE Return([status |-> "results", report |-> Some(report_md.value)])

\* One run of main() over the widget values the browser sent with it. Each
\* step's outcome is bound once: state after _init_session, calculated after
\* _calculate_results (when submitted), rendered after _render_results.
Main(submitted, widget_state) ==
    \E state \in { _init_session(session) } :
    \E calculated \in { IF submitted
                        THEN _calculate_results(state, widget_state, get_pillars,
                                 ValueAtStake(widget_state.value_input))
                        ELSE Return(state) } :
    \E rendered \in { IF calculated.kind = "raise" THEN calculated
                      ELSE _render_results(calculated.value, get_pillars) } :
        /\ widgets' = widget_state
        /\ session' = IF calculated.kind = "raise" THEN state ELSE calculated.value
        /\ page' = IF rendered.kind = "raise"
                   THEN [status |-> "error", report |-> None]
                   ELSE rendered.value
        /\ UNCHANGED <<fn, args, ret>>

\* The answer sets a submission carries: one option for every question but at
\* most one, which may hold any other option.
FormAnswers(pillars) ==
    { [id \in QuestionIds(pillars) |-> IF id = other THEN _default_options[j]
                                                     ELSE _default_options[i]] :
        i \in 1..Len(_default_options), j \in 1..Len(_default_options),
        other \in QuestionIds(pillars) }

\* The browser opens the page: the first run of the script in the session.
OpenPage ==
    /\ DOMAIN widgets = {}
    /\ Main(FALSE, FormDefaults(get_pillars))

\* The user fills in the form and presses "Calculate maturity".
SubmitForm ==
    /\ DOMAIN widgets # {}
    /\ \E answers \in FormAnswers(get_pillars), value_input \in ValueInputs :
          Main(TRUE, [resp |-> answers, value_input |-> value_input])

\* The user presses the download button, which runs the script again.
DownloadReport ==
    /\ page.status = "results"
    /\ Main(FALSE, widgets)

---------------------------------------------------------------------------
(* The import system: vcm_logic/__init__.py and the imports of app.py.     *)
(* A module is named by the sequence of its dotted parts.                  *)

\* The names each module of the package binds at its top level, other than
\* by the statements of __init__.py.
TopLevelNames ==
    ( << "vcm_logic" >> :> { "__all__" } )
    @@ ( << "vcm_logic", "questions" >> :>
            { "dataclass", "List", "Sequence", "Tuple", "Question", "Pillar",
              "_default_options", "option_explanations", "get_pillars" } )
    @@ ( << "vcm_logic", "scoring" >> :>
            { "annotations", "dataclass", "Dict", "Iterable", "Mapping", "Pillar",
              "Question", "PillarScore", "_option_to_score", "score_responses",
              "compute_maturity_level", "overall_average" } )
    @@ ( << "vcm_logic", "initiatives" >> :>
            { "annotations", "dataclass", "List", "Mapping", "Sequence", "Tuple",
              "Initiative", "BANDS", "_INITIATIVES", "_band_for_score",
              "get_top_initiatives" } )
    @@ ( << "vcm_logic", "report_builder" >> :>
            { "annotations", "Dict", "Iterable", "Mapping", "Initiative", "Pillar",
              "PillarScore", "_format_pillar_section", "build_markdown_report" } )

Modules == DOMAIN TopLevelNames

\* The from-import statements of vcm_logic/__init__.py, in order.
PackageImports ==
    << [module |-> << "vcm_logic", "questions" >>,
        names |-> << "Pillar", "Question", "get_pillars" >>],
       [module |-> << "vcm_logic", "scoring" >>,
        names |-> << "compute_maturity_level", "overall_average", "score_responses" >>],
       [module |-> << "vcm_logic", "initiatives" >>,
        names |-> << "get_top_initiatives" >>],
       [module |-> << "vcm_logic", "report_builder" >>,
        names |-> << "build_markdown_report" >>] >>

\* The names __init__.py binds in the package: those its statements import,
\* and the submodules that importing from them loads.
RECURSIVE BoundByImports(_)
BoundByImports(statements) ==
    IF statements = << >> THEN {}
    ELSE LET statement == Head(statements)
         IN  { statement.module[Len(statement.module)] }
             \cup { name \in Range(statement.names) :
                      name \in TopLevelNames[statement.module] }
             \cup BoundByImports(Tail(statements))

\* The attributes of a loaded module.
Namespace(module) ==
    IF module = << "vcm_logic" >>
    THEN TopLevelNames[module] \cup BoundByImports(PackageImports)
    ELSE TopLevelNames[module]

RaiseImportError(module, name) ==
    [kind |-> "raise", exc |-> "ImportError",
     message |-> << "cannot import name '", name, "' from ", module >>]

\* from module import name: the module's attribute of that name, else its
\* submodule of that name, else ImportError.
ImportFrom(module, name) ==
    IF name \in Namespace(module) THEN Return(<< module, name >>)
    ELSE IF Append(module, name) \in Modules THEN Return(<< module, name >>)
    ELSE RaiseImportError(module, name)

\* The from-import statements of app.py that name the package, in order.
AppImports ==
    << [module |-> << "vcm_logic" >>,
        names |-> << "Pillar", "compute_maturity_level", "get_pillars",
                     "get_top_initiatives", "option_explanations", "overall_average",
                     "score_responses" >>],
       [module |-> << "vcm_logic", "initiatives" >>, names |-> << "Initiative" >>],
       [module |-> << "vcm_logic", "report_builder" >>,
        names |-> << "build_markdown_report" >>],
       [module |-> << "vcm_logic", "scoring" >>, names |-> << "PillarScore" >>] >>

---------------------------------------------------------------------------
(* The functions of vcm_logic, each applied to the inputs drawn at the     *)
(* start: fn and args name the call, ret is what it gave.                  *)

\* The results dicts the pipeline yields over the catalogs.
Bundles(pillars) ==
    { CalculateBundle(answers, pillars, value_at_stake).value :
        answers \in { a \in AnswerSets(pillars) :
                        score_responses(a, pillars).kind = "return" },
        value_at_stake \in { ValueAtStake(v) : v \in ValueInputs } }

ScoreResponsesCalls ==
    { [fn |-> "score_responses", args |-> [answers |-> answers, pillars |-> pillars]] :
        answers \in AnswerSets(SmallPillars), pillars \in Catalogs }

OverallAverageCalls ==
    { [fn |-> "overall_average", args |-> [pillar_scores |-> b.pillar_scores]] :
        b \in UNION { Bundles(pillars) : pillars \in Catalogs } }

ComputeMaturityLevelCalls ==
    { [fn |-> "compute_maturity_level", args |-> [overall_score |-> score]] :
        score \in Scores }

BandForScoreCalls ==
    { [fn |-> "_band_for_score", args |-> [score |-> score]] : score \in Scores }

GetTopInitiativesCalls ==
    { [fn |-> "get_top_initiatives",
       args |-> [pillar_id |-> pillar_id, score |-> score, limit |-> limit]] :
        pillar_id \in PillarIdInputs, score \in Scores, limit \in Limits }

\* The values build_markdown_report's value_at_stake may hold: None or a
\* number, 0 included.
ReportValues == { None } \cup { Some(v) : v \in ValueInputs }

\* The report is built over a catalog from one of its results dicts, from
\* which some pillars' scores and some pillars' initiatives may be missing.
BuildMarkdownReportCalls ==
    UNION { { [fn |-> "build_markdown_report",
               args |-> [pillars |-> pillars,
                         pillar_scores |-> Restrict(b.pillar_scores, scored),
                         maturity_level |-> b.maturity_level,
                         overall_score |-> b.overall_score,
                         value_at_stake |-> value_at_stake,
                         initiatives |-> Restrict(b.initiatives, advised)]] :
                b \in Bundles(pillars),
                value_at_stake \in ReportValues,
                scored \in SUBSET PillarIds(pillars),
                advised \in SUBSET PillarIds(pillars) } :
            pillars \in Catalogs }

\* Every module of the package is asked for every name some module binds.
ImportFromCalls ==
    { [fn |-> "import_from", args |-> [module |-> module, name |-> name]] :
        module \in Modules,
        name \in UNION { Namespace(m) : m \in Modules } }

Calls ==
    ScoreResponsesCalls \cup OverallAverageCalls \cup ComputeMaturityLevelCalls
    \cup BandForScoreCalls \cup GetTopInitiativesCalls \cup BuildMarkdownReportCalls
    \cup ImportFromCalls

AppIdle ==
    /\ session = NewSession
    /\ widgets = NoWidgets
    /\ page = [status |-> "closed", report |-> None]

Init ==
    /\ \E call \in Calls : fn = call.fn /\ args = call.args
    /\ ret = Pending
    /\ AppIdle

ScoreResponses ==
    /\ fn = "score_responses" /\ ret.kind = "pending"
    /\ ret' = score_responses(args.answers, args.pillars)
    /\ UNCHANGED <<fn, args, session, widgets, page>>

OverallAverage ==
    /\ fn = "overall_average" /\ ret.kind = "pending"
    /\ ret' = Return(overall_average(args.pillar_scores))
    /\ UNCHANGED <<fn, args, session, widgets, page>>

ComputeMaturityLevel ==
    /\ fn = "compute_maturity_level" /\ ret.kind = "pending"
    /\ ret' = Return(compute_maturity_level(args.overall_score))
    /\ UNCHANGED <<fn, args, session, widgets, page>>

BandForScore ==
    /\ fn = "_band_for_score" /\ ret.kind = "pending"
    /\ ret' = Return(_band_for_score(args.score))
    /\ UNCHANGED <<fn, args, session, widgets, page>>

GetTopInitiatives ==
    /\ fn = "get_top_initiatives" /\ ret.kind = "pending"
    /\ ret' = Return(get_top_initiatives(args.pillar_id, args.score, args.limit))
    /\ UNCHANGED <<fn, args, session, widgets, page>>

BuildMarkdownReport ==
    /\ fn = "build_markdown_report" /\ ret.kind = "pending"
    /\ ret' = build_markdown_report(args.pillars, args.pillar_scores, args.maturity_level,
                                    args.overall_score, args.value_at_stake,
                                    args.initiatives)
    /\ UNCHANGED <<fn, args, session, widgets, page>>

ImportFromModule ==
    /\ fn = "import_from" /\ ret.kind = "pending"
    /\ ret' = ImportFrom(args.module, args.name)
    /\ UNCHANGED <<fn, args, session, widgets, page>>

Next ==
    \/ ScoreResponses
    \/ OverallAverage
    \/ ComputeMaturityLevel
    \/ BandForScore
    \/ GetTopInitiatives
    \/ BuildMarkdownReport
    \/ ImportFromModule

Spec == Init /\ [][Next]_vars

---------------------------------------------------------------------------
(* One browser session of the Streamlit page.                              *)

InitApp ==
    /\ fn = "main" /\ args = << >> /\ ret = Pending
    /\ AppIdle

NextApp ==
    \/ OpenPage
    \/ SubmitForm
    \/ DownloadReport

SpecApp == InitApp /\ [][NextApp]_vars

---------------------------------------------------------------------------
(* One session in which, after the page runs, _calculate_results is called *)
(* over widget values the form does not produce.                           *)

\* The widget values as they stand, with one question's key missing, or with
\* one question's key holding a value that is no option.
TamperedWidgets(widget_state, pillars) ==
    { widget_state }
    \cup { [widget_state EXCEPT !.resp = Restrict(@, DOMAIN @ \ { id })] :
             id \in QuestionIds(pillars) }
    \cup { [widget_state EXCEPT !.resp[id] = "not started"] :
             id \in QuestionIds(pillars) }

\* A page run, while no call of _calculate_results from outside main was made.
SessionRun ==
    /\ ret.kind = "pending"
    /\ NextApp

\* _calculate_results(get_pillars(), value_at_stake) called once over the
\* session's state, outside main: nothing is rendered.
CalculateResults ==
    /\ ret.kind = "pending"
    /\ DOMAIN widgets # {}
    /\ \E widget_state \in TamperedWidgets(widgets, get_pillars) :
       \E calculated \in { _calculate_results(session, widget_state, get_pillars,
                               ValueAtStake(widget_state.value_input)) } :
          /\ fn' = "_calculate_results"
          /\ args' = [value_at_stake |-> ValueAtStake(widget_state.value_input)]
          /\ widgets' = widget_state
          /\ session' = IF calculated.kind = "raise" THEN session ELSE calculated.value
          /\ ret' = IF calculated.kind = "raise" THEN calculated ELSE Return(None)
          /\ UNCHANGED page

NextSession ==
    \/ SessionRun
    \/ CalculateResults

SpecSession == InitApp /\ [][NextSession]_vars

---------------------------------------------------------------------------
(* Claims about score_responses.                                           *)

Called(name) == fn = name /\ ret.kind # "pending"

\* The questions in the order score_responses meets them.
RECURSIVE Traversal(_)
Traversal(pillars) ==
    IF pillars = << >> THEN << >>
    ELSE Head(pillars).questions \o Traversal(Tail(pillars))

\* The answer set holds an option label of the question.
Recognized(answers, question) ==
    /\ question.id \in DOMAIN answers
    /\ \E n \in 1..Len(question.options) : question.options[n] = answers[question.id]

Complete(answers, pillars) ==
    \A question \in QuestionsOf(pillars) : Recognized(answers, question)

\* The sum over the questions of (position of the chosen label) + 1.
RECURSIVE ChosenSum(_, _)
ChosenSum(answers, questions) ==
    IF questions = << >> THEN 0
    ELSE (CHOOSE n \in 1..Len(Head(questions).options) :
              Head(questions).options[n] = answers[Head(questions).id])
         + ChosenSum(answers, Tail(questions))

\* C1: for a complete answer set of option labels, score_responses returns a
\* PillarScore for every pillar; each question's score is the zero-based index
\* of the chosen label + 1 (first option 1, last option the list's length) and
\* each average is the sum of the pillar's scores divided by their count.
C1_ScoresArePositionPlusOne ==
    (Called("score_responses") /\ Complete(args.answers, args.pillars)) =>
        /\ ret.kind = "return"
        /\ DOMAIN ret.value = PillarIds(args.pillars)
        /\ \A p \in 1..Len(args.pillars) :
             LET pillar == args.pillars[p]
                 score == ret.value[pillar.id]
             IN  /\ score.pillar_id = pillar.id
                 /\ DOMAIN score.responses = { q.id : q \in Range(pillar.questions) }
                 /\ \A q \in Range(pillar.questions) :
                      \A index \in 0..(Len(q.options) - 1) :
                         q.options[index + 1] = args.answers[q.id]
                             => score.responses[q.id] = index + 1
                 /\ \A q \in Range(pillar.questions) :
                      /\ args.answers[q.id] = q.options[1] => score.responses[q.id] = 1
                      /\ args.answers[q.id] = q.options[Len(q.options)]
                             => score.responses[q.id] = Len(q.options)
                 /\ score.average.n * Len(pillar.questions)
                        = ChosenSum(args.answers, pillar.questions) * score.average.d

\* A two-pillar call where one question took its last option, another its
\* first, and the first pillar's average is no integer.
C1_Witness ==
    /\ Called("score_responses") /\ Complete(args.answers, args.pillars)
    /\ args.pillars = SmallPillars
    /\ ret.kind = "return"
    /\ ret.value["strategy"].responses["strategy_alignment"] = 1
    /\ ret.value["strategy"].responses["strategy_prioritization"] = ShortOptions
    /\ ret.value["strategy"].average = Frac(1 + ShortOptions, 2)
    /\ ret.value["data"].average = FromInt(ShortOptions + 1)

\* The first question of the traversal whose answer is missing or is no
\* option label, 0 when there is none.
FirstFault(answers, pillars) ==
    LET order == Traversal(pillars)
        faults == { n \in 1..Len(order) : ~Recognized(answers, order[n]) }
    IN  IF faults = {} THEN 0
        ELSE CHOOSE n \in faults : \A m \in faults : n <= m

\* C2: when the question at which the traversal stops has no entry in the
\* answer set, score_responses raises KeyError naming that question's id and
\* returns no mapping, whichever question it is.
C2_MissingAnswerRaises ==
    Called("score_responses") =>
        LET order == Traversal(args.pillars)
            first == FirstFault(args.answers, args.pillars)
        IN  (first # 0 /\ order[first].id \notin DOMAIN args.answers) =>
                /\ ret.kind = "raise"
                /\ ret.exc = "KeyError"
                /\ ret.key = order[first].id
                /\ DOMAIN ret = { "kind", "exc", "key" }

\* Only the last question of the last pillar is missing, and the call raised.
C2_Witness ==
    /\ Called("score_responses")
    /\ args.pillars = SmallPillars
    /\ DOMAIN args.answers = { "strategy_alignment", "strategy_prioritization" }
    /\ \A q \in Range(SmallPillars[1].questions) : Recognized(args.answers, q)
    /\ ret.kind = "raise" /\ ret.exc = "KeyError" /\ ret.key = "data_quality"

\* C3: when the answer at which the traversal stops is no label of its
\* question's option list, score_responses raises ValueError whose message
\* holds the offending value and that question's id; and whenever any
\* question's answer is no label of its list, no mapping is returned.
C3_UnknownOptionRaises ==
    Called("score_responses") =>
        LET order == Traversal(args.pillars)
            first == FirstFault(args.answers, args.pillars)
        IN  /\ (first # 0 /\ order[first].id \in DOMAIN args.answers) =>
                  /\ ret.kind = "raise"
                  /\ ret.exc = "ValueError"
                  /\ ret.message[2] = args.answers[order[first].id]
                  /\ ret.message[4] = order[first].id
                  /\ DOMAIN ret = { "kind", "exc", "message" }
            /\ first # 0 => ret.kind = "raise"

\* Every question is answered, the last one with a label that differs from
\* an option in case only, and the call raised ValueError for it.
C3_Witness ==
    /\ Called("score_responses")
    /\ args.pillars = SmallPillars
    /\ DOMAIN args.answers = QuestionIds(SmallPillars)
    /\ args.answers["data_quality"] = "not started"
    /\ ret.kind = "raise" /\ ret.exc = "ValueError"
    /\ ret.message[2] = "not started" /\ ret.message[4] = "data_quality"

---------------------------------------------------------------------------
(* Claims about overall_average and compute_maturity_level.                *)

\* sum(f[x] for x in S) over integers.
RECURSIVE SetSum(_, _)
SetSum(S, f) ==
    IF S = {} THEN 0
    ELSE LET x == CHOOSE x \in S : TRUE
         IN  f[x] + SetSum(S \ {x}, f)

\* A common multiple of the averages' denominators.
CommonDenominator(pillar_scores) ==
    CHOOSE m \in 1..1000 : \A k \in DOMAIN pillar_scores : m % pillar_scores[k].average.d = 0

\* mean is the arithmetic mean of the PillarScore averages: count * mean
\* equals their sum, compared over a common denominator.
IsMeanOfAverages(mean, pillar_scores) ==
    LET m == CommonDenominator(pillar_scores)
        scaled == [k \in DOMAIN pillar_scores |->
                      pillar_scores[k].average.n * (m \div pillar_scores[k].average.d)]
    IN  mean.n * m * Cardinality(DOMAIN pillar_scores)
            = SetSum(DOMAIN pillar_scores, scaled) * mean.d

\* mean is the mean over all questions' scores.
IsMeanOfQuestions(mean, pillar_scores) ==
    LET sums == [k \in DOMAIN pillar_scores |->
                    SetSum(DOMAIN pillar_scores[k].responses, pillar_scores[k].responses)]
        counts == [k \in DOMAIN pillar_scores |->
                      Cardinality(DOMAIN pillar_scores[k].responses)]
    IN  mean.n * SetSum(DOMAIN pillar_scores, counts)
            = SetSum(DOMAIN pillar_scores, sums) * mean.d

\* C4: overall_average returns the arithmetic mean of the PillarScore
\* averages, every pillar weighing the same, and exactly 0 for the empty
\* mapping.
C4_OverallIsMeanOfMeans ==
    Called("overall_average") =>
        /\ ret.kind = "return"
        /\ DOMAIN args.pillar_scores = {} => ret.value = FromInt(0)
        /\ DOMAIN args.pillar_scores # {} => IsMeanOfAverages(ret.value, args.pillar_scores)

\* Two pillars with different question counts, where the mean of the pillar
\* means is not the mean over all questions.
C4_Witness ==
    /\ Called("overall_average")
    /\ DOMAIN args.pillar_scores = { "strategy", "data" }
    /\ Cardinality(DOMAIN args.pillar_scores["strategy"].responses)
           # Cardinality(DOMAIN args.pillar_scores["data"].responses)
    /\ IsMeanOfAverages(ret.value, args.pillar_scores)
    /\ ~IsMeanOfQuestions(ret.value, args.pillar_scores)

\* The levels in ascending order.
Levels == << "Nascent", "Emerging", "Established", "Leading" >>

LevelRank(level) == CHOOSE r \in 1..Len(Levels) : Levels[r] = level

\* C5: compute_maturity_level is total, follows the boundary table (below 2
\* Nascent, from 2 below 3 Emerging, from 3 below 4 Established, from 4 on
\* Leading, scores below 1 and above 5 included) and never gives a lower
\* level to a higher score.
C5_MaturityLevelTable ==
    Called("compute_maturity_level") =>
        LET score == args.overall_score
        IN  /\ ret.kind = "return"
            /\ ret.value \in Range(Levels)
            /\ score.n < 2 * score.d => ret.value = "Nascent"
            /\ (2 * score.d <= score.n /\ score.n < 3 * score.d) => ret.value = "Emerging"
            /\ (3 * score.d <= score.n /\ score.n < 4 * score.d) => ret.value = "Established"
            /\ 4 * score.d <= score.n => ret.value = "Leading"
            /\ \A lower \in Scores :
                 lower.n * score.d <= score.n * lower.d
                     => LevelRank(compute_maturity_level(lower)) <= LevelRank(ret.value)

\* The score is exactly 2, the lowest score that is Emerging.
C5_Witness ==
    /\ Called("compute_maturity_level")
    /\ args.overall_score = FromInt(2)
    /\ ret.value = "Emerging"

---------------------------------------------------------------------------
(* Claims about the score bands.                                           *)

\* The bands of the table, as lower and upper bound in tenths.
BandTable == << << 0, 20 >>, << 20, 30 >>, << 30, 40 >>, << 40, 51 >> >>

\* score lies in the n-th band of the table: lower inclusive, upper exclusive.
InBand(score, n) ==
    /\ BandTable[n][1] * score.d <= 10 * score.n
    /\ 10 * score.n < BandTable[n][2] * score.d

\* The band tuple the n-th band of the table stands for.
BandTuple(n) == << Frac(BandTable[n][1], 10), Frac(BandTable[n][2], 10) >>

\* C7: every score in [0, 5.1) lies in exactly one of [0,2), [2,3), [3,4),
\* [4,5.1) and _band_for_score returns that band; a score in no band (below
\* 0, or 5.1 and above) is assigned the highest band.
C7_BandsPartition ==
    Called("_band_for_score") =>
        LET score == args.score
            holding == { n \in 1..Len(BandTable) : InBand(score, n) }
        IN  /\ ret.kind = "return"
            /\ (0 <= score.n /\ 10 * score.n < 51 * score.d) =>
                  /\ Cardinality(holding) = 1
                  /\ \A n \in holding : ret.value = BandTuple(n)
            /\ (score.n < 0 \/ 10 * score.n >= 51 * score.d) =>
                  /\ holding = {}
                  /\ ret.value = BandTuple(Len(BandTable))

\* The score is exactly 2, the upper bound of the first band and the lower
\* bound of the second, and the second band is returned.
C7_Witness ==
    /\ Called("_band_for_score")
    /\ args.score = FromInt(2)
    /\ ret.value = << FromInt(2), FromInt(3) >>

\* The list authored for the pillar and the band of the table that holds the
\* score (the highest band when none does), empty when there is none.
AuthoredList(pillar_id, score) ==
    LET holding == { n \in 1..Len(BandTable) : InBand(score, n) }
        n == IF holding = {} THEN Len(BandTable) ELSE CHOOSE n \in holding : TRUE
    IN  IF pillar_id \in DOMAIN _INITIATIVES /\ BandTuple(n) \in DOMAIN _INITIATIVES[pillar_id]
        THEN _INITIATIVES[pillar_id][BandTuple(n)]
        ELSE << >>

IsPrefix(short, long) ==
    /\ Len(short) <= Len(long)
    /\ \A n \in 1..Len(short) : short[n] = long[n]

\* C6: get_top_initiatives never returns more than limit entries, for every
\* pillar id, score and integer limit: at most limit entries when limit >= 0,
\* none when limit <= 0, and always a leading segment of the band's authored
\* list in authored order.
C6_NeverMoreThanLimit ==
    Called("get_top_initiatives") =>
        /\ ret.kind = "return"
        /\ args.limit >= 0 => Len(ret.value) <= args.limit
        /\ args.limit <= 0 => ret.value = << >>
        /\ IsPrefix(ret.value, AuthoredList(args.pillar_id, args.score))

---------------------------------------------------------------------------
(* Claims about build_markdown_report.                                     *)

\* The positions of the report's lines that start with the given text.
LinesStarting(report, text) == { n \in 1..Len(report) : report[n][1] = text }

ValueLines(report) == LinesStarting(report, "**Estimated value at stake:** ")

\* C8: the report holds the value-at-stake line only when a value is
\* present, that is neither None nor zero: no such line for None or 0, and for
\* a positive value exactly one, after the maturity-level line and before the
\* first separator.
C8_ValueLineOnlyWhenPresent ==
    (Called("build_markdown_report") /\ ret.kind = "return") =>
        LET report == ret.value
            value == args.value_at_stake
        IN  /\ (value = None \/ value.val = FromInt(0)) => ValueLines(report) = {}
            /\ (value # None /\ value.val.n > 0) =>
                  /\ Cardinality(ValueLines(report)) = 1
                  /\ \A n \in ValueLines(report) :
                       /\ \E m \in LinesStarting(report, "**Maturity level:** ") : m < n
                       /\ \A m \in LinesStarting(report, "---") : n < m

\* Some pillar of pillars has no entry in the mapping.
LacksEntry(mapping, pillars) == \E id \in PillarIds(pillars) : id \notin DOMAIN mapping

\* C9: build_markdown_report raises a lookup error whenever pillar_scores
\* lacks an entry for a pillar of pillars, and likewise whenever initiatives
\* lacks one; it raises in no other case.
C9_LookupFailurePropagates ==
    Called("build_markdown_report") =>
        /\ LacksEntry(args.pillar_scores, args.pillars)
               => (ret.kind = "raise" /\ ret.exc = "KeyError")
        /\ LacksEntry(args.initiatives, args.pillars)
               => (ret.kind = "raise" /\ ret.exc = "KeyError")
        /\ (~LacksEntry(args.pillar_scores, args.pillars)
            /\ ~LacksEntry(args.initiatives, args.pillars)) => ret.kind = "return"

---------------------------------------------------------------------------
(* Claims about the whole pipeline over the shipped catalog.               *)

\* The session holds results and every question's radio holds the option at
\* position n (from 1) of the shared option list.
CalculatedUniform(n) ==
    /\ "results" \in DOMAIN session /\ session["results"] # None
    /\ DOMAIN widgets # {}
    /\ \A id \in DOMAIN widgets.resp : widgets.resp[id] = _default_options[n]

\* The label and the band of the table for the scores 1..5.
LevelOfScore == << "Nascent", "Emerging", "Established", "Leading", "Leading" >>
BandOfScore == << 1, 2, 3, 4, 4 >>

\* C10: over the four-pillar, two-question-per-pillar catalog, when every
\* answer selects the option at zero-based position N, every pillar average
\* and the overall average equal N + 1, the maturity level is the label of
\* N + 1 and each pillar's initiatives are those configured for the band
\* holding N + 1 (all-first: 1, Nascent, [0,2); all-last: 5, Leading, [4,5.1)).
C10_UniformAnswersRoundTrip ==
    \A n \in 1..Len(_default_options) :
        CalculatedUniform(n) =>
            LET results == session["results"]
            IN  /\ Len(get_pillars) = 4
                /\ \A p \in 1..Len(get_pillars) : Len(get_pillars[p].questions) = 2
                /\ DOMAIN results.pillar_scores = PillarIds(get_pillars)
                /\ DOMAIN results.initiatives = PillarIds(get_pillars)
                /\ \A id \in PillarIds(get_pillars) :
                     /\ results.pillar_scores[id].average = FromInt(n)
                     /\ results.initiatives[id] = _INITIATIVES[id][BandTuple(BandOfScore[n])]
                /\ results.overall_score = FromInt(n)
                /\ results.maturity_level = LevelOfScore[n]

\* Every answer is the last option: 5, Leading and the initiatives of [4,5.1).
C10_Witness ==
    /\ CalculatedUniform(Len(_default_options))
    /\ session["results"].overall_score = FromInt(5)
    /\ session["results"].maturity_level = "Leading"
    /\ session["results"].initiatives["culture"][1].title = "Communities of practice"
    /\ page.status = "results"

---------------------------------------------------------------------------
(* Claims about the names the package exposes.                             *)

\* The import statements of app.py ask the module for the name.
AppImportsName(module, name) ==
    \E n \in 1..Len(AppImports) :
        AppImports[n].module = module /\ name \in Range(AppImports[n].names)

\* C11: every name app.py imports from the vcm_logic package is a name the
\* package defines, option_explanations among get_pillars, score_responses,
\* overall_average, compute_maturity_level and get_top_initiatives, so each of
\* its import statements succeeds.
C11_AppImportsResolve ==
    /\ AppImportsName(<< "vcm_logic" >>, "option_explanations")
    /\ (Called("import_from") /\ AppImportsName(args.module, args.name))
           => ret.kind = "return"

---------------------------------------------------------------------------
(* Claims about the stored results.                                        *)

\* The session state holds a results dict.
HasResults(state) == "results" \in DOMAIN state /\ state["results"] # None

\* The label of the boundary table for the score.
LabelFor(score) ==
    IF score.n < 2 * score.d THEN "Nascent"
    ELSE IF score.n < 3 * score.d THEN "Emerging"
    ELSE IF score.n < 4 * score.d THEN "Established"
    ELSE "Leading"

\* The first limit entries of the list.
Leading(list, limit) == SubSeq(list, 1, IF Len(list) < limit THEN Len(list) ELSE limit)

\* results is one complete bundle over the catalog.
WholeBundle(results, pillars) ==
    /\ DOMAIN results = { "pillar_scores", "overall_score", "maturity_level",
                          "initiatives", "value_at_stake" }
    /\ DOMAIN results.pillar_scores = PillarIds(pillars)
    /\ DOMAIN results.initiatives = PillarIds(pillars)
    /\ \A p \in 1..Len(pillars) :
         LET score == results.pillar_scores[pillars[p].id]
         IN  /\ score.pillar_id = pillars[p].id
             /\ DOMAIN score.responses = { q.id : q \in Range(pillars[p].questions) }
             /\ score.average = Frac(SetSum(DOMAIN score.responses, score.responses),
                                     Len(pillars[p].questions))
             /\ results.initiatives[pillars[p].id]
                    = Leading(AuthoredList(pillars[p].id, score.average), DefaultLimit)
    /\ IsMeanOfAverages(results.overall_score, results.pillar_scores)
    /\ results.maturity_level = LabelFor(results.overall_score)

\* Every field of results comes from the submission that carried widget_state.
FromSubmission(results, widget_state, pillars) ==
    /\ Complete(widget_state.resp, pillars)
    /\ \A p \in 1..Len(pillars) : \A question \in Range(pillars[p].questions) :
         question.options[results.pillar_scores[pillars[p].id].responses[question.id]]
             = widget_state.resp[question.id]
    /\ results.value_at_stake
           = IF widget_state.value_input.n > 0 THEN Some(widget_state.value_input)
             ELSE None

\* The slot is absent, None, or one complete bundle.
SlotIsAbsentOrWhole ==
    HasResults(session) => WholeBundle(session["results"], get_pillars)

\* A step writes the slot only with the bundle of the submission it carries,
\* never empties it again, and leaves the session as it was when the
\* calculation raises.
SlotWrittenWhole ==
    /\ (HasResults(session') /\ session' # session)
           => /\ FromSubmission(session'["results"], widgets', get_pillars)
              /\ ret'.kind # "raise"
    /\ HasResults(session) => HasResults(session')
    /\ (ret.kind = "pending" /\ ret'.kind = "raise") => session' = session
    /\ ~Complete(widgets'.resp, get_pillars) => session' = session

\* C12: across the page runs and submissions of one session the results slot
\* is absent or one complete bundle whose five fields come from the same
\* submission (a PillarScore and an initiatives entry for every catalog
\* pillar, overall_score the mean of the pillar averages, maturity_level the
\* label of overall_score, each pillar's initiatives those selected for its
\* average), and a calculation that raises writes nothing.
C12_SlotAbsentOrOneBundle ==
    [] SlotIsAbsentOrWhole /\ [][SlotWrittenWhole]_vars

\* Results of a submission with a value at stake and an overall score between
\* two levels' scores are stored, and a later calculation over a widget value
\* that is no option has raised ValueError.
C12_Witness ==
    /\ fn = "_calculate_results" /\ ret.kind = "raise" /\ ret.exc = "ValueError"
    /\ HasResults(session)
    /\ session["results"].value_at_stake = Some(FromInt(ValueStep))
    /\ session["results"].overall_score = Frac(17, 8)
    /\ session["results"].maturity_level = "Emerging"
    /\ session["results"].pillar_scores["strategy"].average = Frac(5, 2)
    /\ session["results"].initiatives["strategy"][1].title = "Roadmap by value"
    /\ session["results"].initiatives["data"][1].title = "Quality baselines"

====
